---- MODULE Spec2Model ----
(***************************************************************************)
(* The Human Detection node (src/getAppointment/getAppointment.js, lines   *)
(* 49-217): one Node-RED node that spawns a Python worker per trigger,     *)
(* reads its stdout as newline-delimited JSON, races it against an         *)
(* optional timer and routes the result to one of two outputs.             *)
(*                                                                         *)
(* Every handler of the node runs to completion on the single event loop,  *)
(* so every handler is one action.  The closure variables pythonProcess,   *)
(* waitingNode and timeoutId hold 0 (Null) or the number of the trigger    *)
(* whose worker / message / timer they reference: trigger number n spawns  *)
(* worker n, carries message n and arms timer n.                           *)
(***************************************************************************)
EXTENDS Integers, Sequences, FiniteSets, TLC

\* Bounds of the model.
MaxReq == 2         \* 'input' triggers handled over a run
MaxData == 1        \* stdout 'data' events handled over a run
MaxChunkLen == 2    \* length of a chunk in the demuxer specification
MaxFeeds == 2       \* chunks fed to one worker's demuxer in DemuxSpec

Null == 0
Reqs == 1..MaxReq

(***************************************************************************)
(* Text.  A string is a sequence of characters.  The worker's protocol     *)
(* lines are abbreviated to two characters each:                           *)
(*   {r  for {"status":"ready"}                                            *)
(*   {d  for {"status":"detected","count":1,"humans":[..],"timestamp":..}  *)
(*   {z  for {"status":"detected","count":0,"humans":[],"timestamp":..}    *)
(*   {e  for {"error":"camera not found"}                                  *)
(* Any other non-blank text (x, a lone {, a lone r, ...) is not JSON.      *)
(***************************************************************************)
NL == "\n"
SP == " "
Char == {"{", "r", "d", "z", "e", "x", SP, NL}

RECURSIVE SplitFrom(_, _, _)
\* Fragments of s from position i on, cur being the fragment read so far.
SplitFrom(s, i, cur) ==
    IF i > Len(s) THEN <<cur>>
    ELSE IF s[i] = NL THEN <<cur>> \o SplitFrom(s, i + 1, <<>>)
    ELSE SplitFrom(s, i + 1, Append(cur, s[i]))

\* String.prototype.split('\n'): never empty, n newlines give n + 1 fragments.
Split(s) == SplitFrom(s, 1, <<>>)

Front(q) == SubSeq(q, 1, Len(q) - 1)
Last(q) == q[Len(q)]

\* Mutant of Feed: the carry-over is dropped instead of kept.
FeedDropsCarry(dataBuffer, data) ==
    LET lines == Split(data)
    IN  [lines |-> Front(lines), dataBuffer |-> Last(lines)]

\* dataBuffer += data; lines = dataBuffer.split('\n'); dataBuffer = lines.pop()
Feed(dataBuffer, data) ==
    LET lines == Split(dataBuffer \o data)
    IN  [lines |-> Front(lines), dataBuffer |-> Last(lines)]

RECURSIVE TrimLeft(_)
TrimLeft(s) == IF s # <<>> /\ s[1] = SP THEN TrimLeft(Tail(s)) ELSE s
RECURSIVE TrimRight(_)
TrimRight(s) == IF s # <<>> /\ Last(s) = SP THEN TrimRight(Front(s)) ELSE s
\* String.prototype.trim()
Trim(s) == TrimRight(TrimLeft(s))

\* JSON.parse(line): the decoded object, or ok = FALSE where it throws.
\* error = "" stands for an absent error field, count = -1 for an absent
\* count, humans = <<>> and timestamp = "" for what the line does not carry.
JSONparse(line) ==
    LET t == Trim(line)
        none == [ok |-> FALSE, error |-> "", status |-> "", count |-> -1,
                 humans |-> <<>>, timestamp |-> ""]
    IN  IF t = <<"{", "r">> THEN
            [none EXCEPT !.ok = TRUE, !.status = "ready"]
        ELSE IF t = <<"{", "d">> THEN
            [none EXCEPT !.ok = TRUE, !.status = "detected", !.count = 1,
                         !.humans = <<[id |-> 0, confidence |-> 90]>>,
                         !.timestamp = "2025-01-01T00:00:00Z"]
        ELSE IF t = <<"{", "z">> THEN
            [none EXCEPT !.ok = TRUE, !.status = "detected", !.count = 0,
                         !.timestamp = "2025-01-01T00:00:00Z"]
        ELSE IF t = <<"{", "e">> THEN
            [none EXCEPT !.ok = TRUE, !.error = "camera not found"]
        ELSE none


(***************************************************************************)
(* State.                                                                  *)
(***************************************************************************)
VARIABLES
    config,         \* the node's configuration, fixed at construction
    pythonProcess,  \* closure variable: Null or the worker referenced
    waitingNode,    \* closure variable: Null or the trigger message held
    timeoutId,      \* closure variable: Null or the timer referenced
    status,         \* the status the node shows after the last handler
    proc,           \* per worker: process state, kill() calls, dataBuffer
    timer,          \* per timer: "none", "armed", "cleared" or "fired"
    out,            \* per trigger: what was sent and reported
    msg,            \* per trigger: its message object, as it is now
    argv,           \* per worker: the argument list it was spawned with
    hist,           \* per trigger: how it was cancelled, its first terminal event
    nextReq,        \* number of the next trigger
    nData,          \* stdout 'data' events handled so far
    nodeClosed,     \* the node's 'close' handler has run
    doneCalls,      \* calls of the 'close' handler's done callback
    dmx             \* the demuxer specification's state (DemuxSpec)

vars == <<config, pythonProcess, waitingNode, timeoutId, status, proc, timer,
          out, msg, argv, hist, nextReq, nData, nodeClosed, doneCalls, dmx>>

\* Exit codes of the 'close' event: null (ended by a signal), 0, and 1 for
\* every other code (an error exit; the errno of a worker that did not start).
ExitCodes == {[null |-> TRUE, val |-> 0], [null |-> FALSE, val |-> 0],
              [null |-> FALSE, val |-> 1]}

\* config.timeout in seconds, as the node is configured: 0 (no timeout) or
\* 2.  set = FALSE would be a configuration without the field.
Timeouts == {[set |-> TRUE, val |-> 0], [set |-> TRUE, val |-> 2]}

\* The message of trigger r, as the flow delivers it: the odd ones carry a
\* payload of their own, the even ones none.
TriggerMsg(r) ==
    IF r % 2 = 1
        THEN [_msgid |-> r, topic |-> "camera", payload |-> [text |-> "go"]]
        ELSE [_msgid |-> r, topic |-> "door"]

\* The stdout chunks the workers of the main specification write: whole
\* lines.  Chunks that cut a line in two are the subject of DemuxSpec.
Chunks == { <<"{", "r", NL>>,                   \* ready
            <<"{", "z", NL>>,                   \* detected, count 0
            <<"{", "d", NL>>,                   \* detected, count 1
            <<"{", "e", NL>>,                   \* error
            <<"x", NL>>,                        \* not JSON
            <<SP, NL>>,                         \* blank line
            <<"{", "d", NL, "{", "e", NL>>,     \* detected, then error
            <<"{", "d", NL, "{", "r", NL>>,     \* detected, then ready
            <<"{", "e", NL, "{", "d", NL>>,     \* error, then detected
            <<"{", "d", NL, "{", "d", NL>> }    \* detected twice

(***************************************************************************)
(* The handlers work on a record s of everything a handler can change;     *)
(* World is that record at the start of a handler, Commit stores it.       *)
(***************************************************************************)
World ==
    [pythonProcess |-> pythonProcess, waitingNode |-> waitingNode,
     timeoutId |-> timeoutId, status |-> status, proc |-> proc,
     timer |-> timer, out |-> out, msg |-> msg, argv |-> argv, hist |-> hist]

Commit(s) ==
    /\ pythonProcess' = s.pythonProcess
    /\ waitingNode' = s.waitingNode
    /\ timeoutId' = s.timeoutId
    /\ status' = s.status
    /\ proc' = s.proc
    /\ timer' = s.timer
    /\ out' = s.out
    /\ msg' = s.msg
    /\ argv' = s.argv
    /\ hist' = s.hist

\* node.status(x): "idle" is node.status({}).
nodeStatus(s, x) == [s EXCEPT !.status = x]

\* node.status({fill: "red", .., text: "humanDetection.error"}) in a handler
\* of worker w (or in trigger w's spawn catch); the call is counted for w.
statusError(s, w) ==
    [nodeStatus(s, "error") EXCEPT !.hist[w].errShown = @ + 1]

\* node.error(..) called from a handler of worker w (or from trigger w's
\* spawn catch): counted for w, and for the trigger held in the slot.
nodeError(s, w) ==
    [s EXCEPT !.out[w].errBy = @ + 1,
              !.out = IF s.waitingNode # Null
                         THEN [@ EXCEPT ![s.waitingNode].errFor = @ + 1]
                         ELSE @]

\* node.log(line), node.warn(..): the text goes to the runtime's log, the
\* node's state is as before.
nodeLog(s) == s
nodeWarn(s) == s

\* Object.assign(target, source): source's own fields copied onto target.
ObjectAssign(target, source) ==
    [f \in DOMAIN target \cup DOMAIN source |->
        IF f \in DOMAIN source THEN source[f] ELSE target[f]]

\* object[field] = value
SetField(object, field, value) ==
    [f \in DOMAIN object \cup {field} |->
        IF f = field THEN value ELSE object[f]]

\* Mutant of sendSuccess: the payload is set on the trigger message itself.
sendSuccessNoCopy(s, result) ==
    LET outputMsg == SetField(s.msg[s.waitingNode], "payload",
                              [count |-> result.count, humans |-> result.humans,
                               timestamp |-> result.timestamp])
    IN  [s EXCEPT !.msg[s.waitingNode] = outputMsg,
                  !.out[s.waitingNode].ch1 = @ + 1,
                  !.out[s.waitingNode].sent = Append(@, outputMsg)]

\* outputMsg = Object.assign({}, waitingNode); outputMsg.payload = {count,
\* humans, timestamp}; node.send([outputMsg, null]).
sendSuccess(s, result) ==
    LET outputMsg == SetField(ObjectAssign(<<>>, s.msg[s.waitingNode]), "payload",
                              [count |-> result.count, humans |-> result.humans,
                               timestamp |-> result.timestamp])
    IN  [s EXCEPT !.out[s.waitingNode].ch1 = @ + 1,
                  !.out[s.waitingNode].sent = Append(@, outputMsg)]

\* node.send([null, {payload: timeoutOutput}]) while waitingNode is held.
sendTimeout(s) == [s EXCEPT !.out[s.waitingNode].ch2 = @ + 1]

\* History: the first terminal event that trigger w's worker, timer or
\* spawn has had handled, and whether the slot held trigger w then.
Terminal(s, w, kind) ==
    IF s.hist[w].first = "none"
        THEN [s EXCEPT !.hist[w].first = kind,
                       !.hist[w].live = (s.waitingNode = w)]
        ELSE s

\* History: the trigger held in the slot is cancelled ("superseded" by a
\* trigger, "stopped" by shutdown or reset) by the handler about to clean up.
Cancel(s, how) ==
    IF s.waitingNode # Null /\ s.hist[s.waitingNode].cancel = "no"
        THEN [s EXCEPT !.hist[s.waitingNode].cancel = how]
        ELSE s

\* Mutant of cleanup: the worker handle is dropped without a kill().
cleanupNoKill(s) ==
    LET s1 == [s EXCEPT !.pythonProcess = Null]
        s2 == IF s1.timeoutId # Null
                 THEN [s1 EXCEPT !.timer[s1.timeoutId] =
                                     IF @ = "armed" THEN "cleared" ELSE @,
                                 !.timeoutId = Null]
                 ELSE s1
    IN  nodeStatus([s2 EXCEPT !.waitingNode = Null], "idle")

\* Mutant of cleanup: the worker is killed but its handle is kept.
cleanupKeepsHandle(s) ==
    LET s1 == IF s.pythonProcess # Null
                 THEN [s EXCEPT !.proc[s.pythonProcess].kills = @ + 1]
                 ELSE s
        s2 == IF s1.timeoutId # Null
                 THEN [s1 EXCEPT !.timer[s1.timeoutId] =
                                     IF @ = "armed" THEN "cleared" ELSE @,
                                 !.timeoutId = Null]
                 ELSE s1
    IN  nodeStatus([s2 EXCEPT !.waitingNode = Null], "idle")

cleanup(s) ==
    LET s1 == IF s.pythonProcess # Null
                 THEN [s EXCEPT !.proc[s.pythonProcess].kills = @ + 1,
                                !.pythonProcess = Null]
                 ELSE s
        s2 == IF s1.timeoutId # Null
                 THEN [s1 EXCEPT !.timer[s1.timeoutId] =
                                     IF @ = "armed" THEN "cleared" ELSE @,
                                 !.timeoutId = Null]
                 ELSE s1
    IN  nodeStatus([s2 EXCEPT !.waitingNode = Null], "idle")

timeoutHandler(s) ==
    IF s.waitingNode # Null THEN cleanup(sendTimeout(s)) ELSE s

\* Mutant of HandleLine: a 'detected' line resolves whatever its count.
HandleLineAnyCount(s, w, line) ==
    IF Trim(line) = <<>> THEN s
    ELSE LET result == JSONparse(line)
         IN  IF ~result.ok THEN nodeLog(s)
             ELSE IF result.error # "" THEN
                 cleanup(statusError(nodeError(Terminal(s, w, "errorLine"), w), w))
             ELSE IF result.status = "ready" THEN nodeStatus(s, "ready")
             ELSE IF result.status = "detected" THEN
                 IF s.waitingNode # Null
                     THEN cleanup(nodeStatus(sendSuccess(s, result), "detected"))
                     ELSE s
             ELSE s

\* Mutant of HandleLine: an error line is reported but tears nothing down.
HandleLineErrorNoCleanup(s, w, line) ==
    IF Trim(line) = <<>> THEN s
    ELSE LET result == JSONparse(line)
         IN  IF ~result.ok THEN nodeLog(s)
             ELSE IF result.error # "" THEN
                 statusError(nodeError(Terminal(s, w, "errorLine"), w), w)
             ELSE IF result.status = "ready" THEN nodeStatus(s, "ready")
             ELSE IF result.status = "detected" /\ result.count > 0 THEN
                 LET s1 == Terminal(s, w, "detected")
                 IN  IF s1.waitingNode # Null
                         THEN cleanup(nodeStatus(sendSuccess(s1, result), "detected"))
                         ELSE s1
             ELSE s

\* Mutant of HandleLine: a line that is not JSON is taken for a failure.
HandleLineNoiseFails(s, w, line) ==
    IF Trim(line) = <<>> THEN s
    ELSE LET result == JSONparse(line)
         IN  IF ~result.ok THEN cleanup(statusError(nodeError(s, w), w))
             ELSE IF result.error # "" THEN
                 cleanup(statusError(nodeError(Terminal(s, w, "errorLine"), w), w))
             ELSE IF result.status = "ready" THEN nodeStatus(s, "ready")
             ELSE IF result.status = "detected" /\ result.count > 0 THEN
                 LET s1 == Terminal(s, w, "detected")
                 IN  IF s1.waitingNode # Null
                         THEN cleanup(nodeStatus(sendSuccess(s1, result), "detected"))
                         ELSE s1
             ELSE s

\* The body of lines.forEach, for one line of worker w's stdout.
HandleLine(s, w, line) ==
    IF Trim(line) = <<>> THEN s
    ELSE LET result == JSONparse(line)
         IN  IF ~result.ok THEN nodeLog(s)
             ELSE IF result.error # "" THEN
                 cleanup(statusError(nodeError(Terminal(s, w, "errorLine"), w), w))
             ELSE IF result.status = "ready" THEN nodeStatus(s, "ready")
             ELSE IF result.status = "detected" /\ result.count > 0 THEN
                 LET s1 == Terminal(s, w, "detected")
                 IN  IF s1.waitingNode # Null
                         THEN cleanup(nodeStatus(sendSuccess(s1, result), "detected"))
                         ELSE s1
             ELSE s

RECURSIVE HandleLines(_, _, _)
\* lines.forEach(...)
HandleLines(s, w, lines) ==
    IF lines = <<>> THEN s
    ELSE HandleLines(HandleLine(s, w, Head(lines)), w, Tail(lines))

\* let dataBuffer = '': every spawned worker gets its own, empty.
newDataBuffer == <<>>

\* The stdout 'data' handler of worker w.
onStdout(s, w, data) ==
    LET f == Feed(s.proc[w].dataBuffer, data)
    IN  HandleLines([s EXCEPT !.proc[w].dataBuffer = f.dataBuffer,
                              !.proc[w].st = "running"], w, f.lines)

\* Mutant of onClose: the exit is reported, the cleanup() call is missing.
onCloseNoCleanup(s, w, code) ==
    LET s0 == [s EXCEPT !.proc[w].st = "closed"]
    IN  IF ~code.null /\ code.val # 0
            THEN statusError(nodeError(Terminal(s0, w, "exit"), w), w)
            ELSE s0

\* The 'close' handler of worker w.
onClose(s, w, code) ==
    LET s0 == [s EXCEPT !.proc[w].st = "closed"]
        s1 == IF ~code.null /\ code.val # 0
                 THEN statusError(nodeError(Terminal(s0, w, "exit"), w), w)
                 ELSE s0
    IN  cleanup(s1)

\* The 'error' handler of worker w.
onError(s, w) ==
    LET s0 == [s EXCEPT !.proc[w].st = "failed"]
    IN  cleanup(statusError(nodeError(Terminal(s0, w, "startFailure"), w), w))

\* (config.confidence || 50) / 100 : a fraction, kept as it is written.
Fraction(percent) == [num |-> percent, den |-> 100]

\* x || d for a configuration field x that holds a number: d where x is
\* absent or 0.
NumberOr(x, d) == IF x.set /\ x.val # 0 THEN x.val ELSE d

\* x || d for a configuration field x that holds a string: d where x is
\* absent or empty.
StringOr(x, d) == IF x.set /\ x.val # "" THEN x.val ELSE d

\* const args = [scriptPath, '--method', ..]; the two args.push(..).
Args(cfg) ==
    << "detect_human.py",
       "--method", StringOr(cfg.method, "mobilenet"),
       "--confidence", Fraction(NumberOr(cfg.confidence, 50)),
       "--camera", StringOr(cfg.camera, "0") >>
    \o (IF ~cfg.visualFeedback THEN <<"--no-display">> ELSE <<>>)
    \o (IF cfg.detectEmotion THEN <<"--emotion">> ELSE <<>>)

\* Mutant of TimeoutConfigured: any non-zero timeout arms the timer.
TimeoutConfiguredNonZero == config.timeout.set /\ config.timeout.val # 0

\* config.timeout && config.timeout > 0
TimeoutConfigured == config.timeout.set /\ config.timeout.val # 0
                     /\ config.timeout.val > 0

\* Mutant of onInput: the cleanup() that opens the handler is missing.
onInputNoCleanup(s, r, throws) ==
    LET s1 == nodeStatus([s EXCEPT !.waitingNode = r], "detecting")
        s2 == IF TimeoutConfigured
                 THEN [s1 EXCEPT !.timeoutId = r, !.timer[r] = "armed"]
                 ELSE s1
    IN  IF throws
            THEN cleanup(statusError(nodeError(Terminal(s2, r, "startFailure"), r),
                                     r))
            ELSE [s2 EXCEPT !.pythonProcess = r, !.proc[r].st = "spawned",
                            !.proc[r].dataBuffer = newDataBuffer,
                            !.argv[r] = Args(config)]

\* Mutant of onInput: the spawn catch reports the error and cleans nothing.
onInputCatchNoCleanup(s, r, throws) ==
    LET s0 == cleanup(Cancel(s, "superseded"))
        s1 == nodeStatus([s0 EXCEPT !.waitingNode = r], "detecting")
        s2 == IF TimeoutConfigured
                 THEN [s1 EXCEPT !.timeoutId = r, !.timer[r] = "armed"]
                 ELSE s1
    IN  IF throws
            THEN statusError(nodeError(Terminal(s2, r, "startFailure"), r), r)
            ELSE [s2 EXCEPT !.pythonProcess = r, !.proc[r].st = "spawned",
                            !.proc[r].dataBuffer = newDataBuffer,
                            !.argv[r] = Args(config)]

\* The 'input' handler for trigger r; throws: spawn() throws.
onInput(s, r, throws) ==
    LET s0 == cleanup(Cancel(s, "superseded"))
        s1 == nodeStatus([s0 EXCEPT !.waitingNode = r], "detecting")
        s2 == IF TimeoutConfigured
                 THEN [s1 EXCEPT !.timeoutId = r, !.timer[r] = "armed"]
                 ELSE s1
    IN  IF throws
            THEN cleanup(statusError(nodeError(Terminal(s2, r, "startFailure"), r),
                                     r))
            ELSE [s2 EXCEPT !.pythonProcess = r, !.proc[r].st = "spawned",
                            !.proc[r].dataBuffer = newDataBuffer,
                            !.argv[r] = Args(config)]

\* Mutant of onNodeClose: the worker is killed, the trigger stays in the slot.
onNodeCloseOnlyKills(s) ==
    IF s.pythonProcess # Null
        THEN [s EXCEPT !.proc[s.pythonProcess].kills = @ + 1,
                       !.pythonProcess = Null]
        ELSE s

\* The node's 'close' handler, before it calls done().
onNodeClose(s) == cleanup(Cancel(s, "stopped"))

\* The callback of the RESET_NODE_STATE subscription.
onResetState(s) == cleanup(Cancel(s, "stopped"))

(***************************************************************************)
(* Initial state: the node constructed, no trigger yet.                    *)
(***************************************************************************)
Constructed ==
    /\ pythonProcess = Null
    /\ waitingNode = Null
    /\ timeoutId = Null
    /\ status = "idle"
    /\ proc = [w \in Reqs |-> [st |-> "none", kills |-> 0, dataBuffer |-> <<>>]]
    /\ timer = [r \in Reqs |-> "none"]
    /\ out = [r \in Reqs |-> [ch1 |-> 0, ch2 |-> 0, errBy |-> 0, errFor |-> 0,
                              sent |-> <<>>]]
    /\ msg = [r \in Reqs |-> <<>>]
    /\ argv = [w \in Reqs |-> <<>>]
    /\ hist = [r \in Reqs |-> [cancel |-> "no", first |-> "none",
                               live |-> FALSE, errShown |-> 0]]
    /\ nextReq = 1
    /\ nData = 0
    /\ nodeClosed = FALSE
    /\ doneCalls = 0
    /\ dmx = [fed |-> <<>>, lines |-> <<>>, dataBuffer |-> <<>>, feeds |-> 0]

\* The configurations with timeout in ts and the detection settings of the
\* main specification: MobileNet at 50 %, camera 0, window shown, no emotion.
Configs(ts) ==
    [timeout : ts,
     method : {[set |-> TRUE, val |-> "mobilenet"]},
     confidence : {[set |-> TRUE, val |-> 50]},
     camera : {[set |-> TRUE, val |-> "0"]},
     visualFeedback : {TRUE},
     detectEmotion : {FALSE}]

Init == config \in Configs(Timeouts) /\ Constructed

(***************************************************************************)
(* Actions: one per handler.                                               *)
(***************************************************************************)
\* node.on("input"): a trigger arrives.
Input(throws) ==
    /\ nextReq <= MaxReq
    /\ ~nodeClosed
    /\ Commit(onInput([World EXCEPT !.msg[nextReq] = TriggerMsg(nextReq)],
                       nextReq, throws))
    /\ nextReq' = nextReq + 1
    /\ UNCHANGED <<config, nData, nodeClosed, doneCalls, dmx>>

\* pythonProcess.stdout.on('data'): worker w's pipe delivers a chunk.  A
\* killed worker's pipe still delivers what it wrote, until 'close'.
StdoutData(w, data) ==
    /\ proc[w].st \in {"spawned", "running"}
    /\ nData < MaxData
    /\ Commit(onStdout(World, w, data))
    /\ nData' = nData + 1
    /\ UNCHANGED <<config, nextReq, nodeClosed, doneCalls, dmx>>

\* pythonProcess.stderr.on('data')
StderrData(w) ==
    /\ proc[w].st \in {"spawned", "running"}
    /\ Commit(nodeWarn(World))
    /\ UNCHANGED <<config, nextReq, nData, nodeClosed, doneCalls, dmx>>

\* pythonProcess.on('close'): worker w has ended and its pipes are closed.
ProcClose(w, code) ==
    /\ proc[w].st \in {"spawned", "running", "failed"}
    /\ Commit(onClose(World, w, code))
    /\ UNCHANGED <<config, nextReq, nData, nodeClosed, doneCalls, dmx>>

\* pythonProcess.on('error'): worker w could not be started.  It is the
\* worker's first event, and only 'close' follows it.
ProcError(w) ==
    /\ proc[w].st = "spawned"
    /\ Commit(onError(World, w))
    /\ UNCHANGED <<config, nextReq, nData, nodeClosed, doneCalls, dmx>>

\* Timer r expires: only an armed timer does, clearTimeout prevents it.
TimerFire(r) ==
    /\ timer[r] = "armed"
    /\ Commit(timeoutHandler(Terminal([World EXCEPT !.timer[r] = "fired"],
                                      r, "timeout")))
    /\ UNCHANGED <<config, nextReq, nData, nodeClosed, doneCalls, dmx>>

\* node.on("close"): the node is shut down.
NodeClose ==
    /\ ~nodeClosed
    /\ Commit(onNodeClose(World))
    /\ nodeClosed' = TRUE
    /\ doneCalls' = doneCalls + 1
    /\ UNCHANGED <<config, nextReq, nData, dmx>>

\* The RESET_NODE_STATE subscription's callback.  Where EventPubSub could
\* not be loaded there is no subscription and the event never happens: those
\* runs are the runs of this specification without a ResetState step.
ResetState ==
    /\ Commit(onResetState(World))
    /\ UNCHANGED <<config, nextReq, nData, nodeClosed, doneCalls, dmx>>

Next ==
    \/ \E throws \in BOOLEAN : Input(throws)
    \/ \E w \in Reqs, data \in Chunks : StdoutData(w, data)
    \/ \E w \in Reqs : StderrData(w)
    \/ \E w \in Reqs, code \in ExitCodes : ProcClose(w, code)
    \/ \E w \in Reqs : ProcError(w)
    \/ \E r \in Reqs : TimerFire(r)
    \/ NodeClose
    \/ ResetState

Spec == Init /\ [][Next]_vars

\* The node under every kind of timeout configuration: the field absent,
\* zero, negative or positive.
AllTimeouts ==
    Timeouts \cup {[set |-> FALSE, val |-> 0], [set |-> TRUE, val |-> -1]}

TimeoutInit == config \in Configs(AllTimeouts) /\ Constructed

TimeoutSpec == TimeoutInit /\ [][Next]_vars

(***************************************************************************)
(* The spawn alone: the node under every kind of detection settings,       *)
(* handling triggers.  argv[w] is the argument list of worker w.           *)
(***************************************************************************)
Methods == {[set |-> FALSE, val |-> ""], [set |-> TRUE, val |-> "hog"]}

\* Confidence threshold in percent, 0 to 100.
Confidences == {[set |-> FALSE, val |-> 0], [set |-> TRUE, val |-> 0],
                [set |-> TRUE, val |-> 87]}

Cameras == {[set |-> FALSE, val |-> ""], [set |-> TRUE, val |-> "1"]}

ArgsInit ==
    /\ config \in [timeout : Timeouts, method : Methods,
                    confidence : Confidences, camera : Cameras,
                    visualFeedback : BOOLEAN, detectEmotion : BOOLEAN]
    /\ Constructed

ArgsNext == \E throws \in BOOLEAN : Input(throws)

ArgsSpec == ArgsInit /\ [][ArgsNext]_vars

(***************************************************************************)
(* The line demuxer alone: one worker's stdout handler fed arbitrary       *)
(* chunks.  dmx.fed is everything the worker has written, dmx.lines the    *)
(* lines handed to lines.forEach so far, dmx.dataBuffer the carry-over.    *)
(***************************************************************************)
DemuxChar == {"{", "r", NL}

DemuxChunks ==
    UNION {[1..n -> DemuxChar] : n \in 1..MaxChunkLen}

\* A stdout 'data' event of the worker: lines 138-142 of the handler.
DemuxFeed(data) ==
    /\ dmx.feeds < MaxFeeds
    /\ LET f == Feed(dmx.dataBuffer, data)
       IN  dmx' = [fed |-> dmx.fed \o data, lines |-> dmx.lines \o f.lines,
                   dataBuffer |-> f.dataBuffer, feeds |-> dmx.feeds + 1]
    /\ UNCHANGED <<config, pythonProcess, waitingNode, timeoutId, status, proc,
                   timer, out, msg, argv, hist, nextReq, nData, nodeClosed,
                   doneCalls>>

\* The next trigger spawns a new worker, with a dataBuffer of its own.
DemuxSpawn ==
    /\ dmx.feeds > 0
    /\ dmx' = [fed |-> <<>>, lines |-> <<>>, dataBuffer |-> newDataBuffer,
               feeds |-> 0]
    /\ UNCHANGED <<config, pythonProcess, waitingNode, timeoutId, status, proc,
                   timer, out, msg, argv, hist, nextReq, nData, nodeClosed,
                   doneCalls>>

DemuxNext ==
    \/ \E data \in DemuxChunks : DemuxFeed(data)
    \/ DemuxSpawn

DemuxSpec == Init /\ [][DemuxNext]_vars

TypeOK ==
    /\ pythonProcess \in 0..MaxReq
    /\ waitingNode \in 0..MaxReq
    /\ timeoutId \in 0..MaxReq
    /\ status \in {"idle", "detecting", "ready", "detected", "error"}
    /\ \A r \in Reqs : timer[r] \in {"none", "armed", "cleared", "fired"}
    /\ \A r \in Reqs : proc[r].st \in {"none", "spawned", "running", "failed",
                                       "closed"}


(***************************************************************************)
(* Vocabulary of the claims.                                               *)
(***************************************************************************)
\* Trigger r has been handled by the 'input' handler.
Started(r) == r < nextReq

\* A Failure was reported for trigger r: node.error was called by a handler
\* of r's worker or by r's spawn catch, or while the slot held r.
FailureReported(r) == out[r].errBy > 0 \/ out[r].errFor > 0

\* Outcomes produced by trigger r's own events and sends carrying r.
Outcomes(r) == out[r].ch1 + out[r].ch2 + out[r].errBy

\* An event of worker w or of timer w is handled in this step.
WorkerEvent(w) ==
    \/ \E data \in Chunks : StdoutData(w, data)
    \/ \E code \in ExitCodes : ProcClose(w, code)
    \/ ProcError(w)
    \/ TimerFire(w)

(***************************************************************************)
(* C1.  For every trigger, at most one of {channel-1 send, channel-2 send} *)
(* ever occurs, and a trigger for which a Failure was reported (error      *)
(* line, non-zero exit code, start failure) gets no send on either         *)
(* channel.                                                                *)
(***************************************************************************)
C1_OneChannelAndNoneOnFailure ==
    \A r \in Reqs :
        /\ out[r].ch1 + out[r].ch2 <= 1
        /\ FailureReported(r) => out[r].ch1 = 0 /\ out[r].ch2 = 0

(***************************************************************************)
(* C2.  Once a trigger is superseded, no event of its worker or timer      *)
(* changes the new trigger: the slot, the worker handle and the timer      *)
(* handle stay, the new worker is not killed, the new timer is not         *)
(* cleared, and nothing is sent or reported for the new trigger.           *)
(***************************************************************************)
C2_StaleEventsSuppressed ==
    [][\A w \in Reqs :
          (hist[w].cancel = "superseded" /\ waitingNode # Null /\ WorkerEvent(w))
          => /\ waitingNode' = waitingNode
             /\ pythonProcess' = pythonProcess
             /\ timeoutId' = timeoutId
             /\ proc'[waitingNode].kills = proc[waitingNode].kills
             /\ timer'[waitingNode] = timer[waitingNode]
             /\ out'[waitingNode] = out[waitingNode]]_vars

(***************************************************************************)
(* C3.  A trigger superseded while unresolved has had its worker killed    *)
(* and its timer cleared by the 'input' handler that superseded it, and    *)
(* no Outcome (channel-1 send, channel-2 send, error report) is ever       *)
(* produced for it.                                                        *)
(***************************************************************************)
C3_SupersededGetsNoOutcome ==
    \A r \in Reqs :
        hist[r].cancel = "superseded"
        => /\ proc[r].kills >= 1
           /\ timer[r] # "armed"
           /\ out[r].ch1 = 0 /\ out[r].ch2 = 0 /\ out[r].errBy = 0

(***************************************************************************)
(* C4.  Whenever the slot no longer holds a trigger that was neither       *)
(* superseded nor stopped by shutdown or reset, exactly one of {channel-1  *)
(* send, channel-2 send, Failure reported} has occurred for it.            *)
(***************************************************************************)
C4_ClearedOnlyByOutcome ==
    \A r \in Reqs :
        (Started(r) /\ waitingNode # r /\ hist[r].cancel = "no")
        => out[r].ch1 + out[r].ch2 + (IF FailureReported(r) THEN 1 ELSE 0) = 1

(***************************************************************************)
(* C5.  At most one Outcome per trigger, and it is final: the sends for a  *)
(* trigger and the error reports of its own worker's events (error lines,  *)
(* later lines of the same chunk, a non-zero exit, a process error, the    *)
(* timer) never add up to more than one.                                   *)
(***************************************************************************)
C5_OneFinalOutcome == \A r \in Reqs : Outcomes(r) <= 1

(***************************************************************************)
(* C6.  The first terminal event handled among a trigger's own {terminal   *)
(* line, non-zero exit, start failure, timer fire} decides its outcome: a  *)
(* 'detected' line with count > 0 first gives a channel-1 send and never   *)
(* a channel-2 send; the timer first gives a channel-2 send and never a    *)
(* channel-1 send.                                                         *)
(***************************************************************************)
C6_FirstTerminalEventWins ==
    \A r \in Reqs :
        hist[r].cancel = "no"
        => /\ hist[r].first = "detected" => out[r].ch1 = 1 /\ out[r].ch2 = 0
           /\ hist[r].first = "timeout" => out[r].ch2 = 1 /\ out[r].ch1 = 0


(***************************************************************************)
(* C7.  Handling a 'ready' line or a 'detected' line with count 0 never    *)
(* resolves the trigger: in every reachable state, the line handler        *)
(* applied to such a line leaves the slot, the worker handle, the timer    *)
(* handle, the workers, the timers and everything sent or reported as      *)
(* they are; 'ready' changes the status alone, count 0 changes nothing.    *)
(***************************************************************************)
ReadyLine == <<"{", "r">>
ZeroCountLine == <<"{", "z">>

C7_ReadyAndZeroCountResolveNothing ==
    \A w \in Reqs :
        /\ HandleLine(World, w, ReadyLine) = [World EXCEPT !.status = "ready"]
        /\ HandleLine(World, w, ZeroCountLine) = World

\* A 'ready' line has been handled and the trigger is still in flight, with
\* its worker and its timer.
C7_Witness ==
    \E r \in Reqs :
        /\ waitingNode = r /\ pythonProcess = r /\ timeoutId = r
        /\ status = "ready" /\ proc[r].st = "running" /\ proc[r].kills = 0
        /\ timer[r] = "armed" /\ Outcomes(r) = 0

(***************************************************************************)
(* C8.  Line demuxing is independent of chunk boundaries: however the      *)
(* worker's output is split into chunks, the lines handed on, each         *)
(* followed by a newline, and then the carry-over spell the output fed so  *)
(* far, no line and no carry-over holds a newline, and a new worker        *)
(* starts with an empty carry-over.  A 'ready' message split across two    *)
(* chunks is handed on as one line that decodes to 'ready', with no        *)
(* diagnostic line.                                                        *)
(***************************************************************************)
RECURSIVE Join(_)
Join(ls) == IF ls = <<>> THEN <<>> ELSE Head(ls) \o <<NL>> \o Join(Tail(ls))

HasNL(s) == \E i \in 1..Len(s) : s[i] = NL

\* Lines of ls that JSON.parse decodes to a 'ready' message.
ReadyLines(ls) ==
    {i \in 1..Len(ls) : Trim(ls[i]) # <<>> /\ JSONparse(ls[i]).ok
                        /\ JSONparse(ls[i]).status = "ready"}

\* Lines of ls that go to node.log as diagnostic text.
DiagnosticLines(ls) ==
    {i \in 1..Len(ls) : Trim(ls[i]) # <<>> /\ ~JSONparse(ls[i]).ok}

C8_DemuxIgnoresChunking ==
    /\ Join(dmx.lines) \o dmx.dataBuffer = dmx.fed
    /\ ~HasNL(dmx.dataBuffer)
    /\ \A i \in 1..Len(dmx.lines) : ~HasNL(dmx.lines[i])
    /\ dmx.feeds = 0 => dmx.dataBuffer = <<>> /\ dmx.lines = <<>>
    /\ dmx.fed = <<"{", "r", NL>>
       => /\ Cardinality(ReadyLines(dmx.lines)) = 1
          /\ DiagnosticLines(dmx.lines) = {}

\* The 'ready' message has arrived in two chunks.
C8_Witness ==
    /\ dmx.feeds = 2
    /\ dmx.fed = <<"{", "r", NL>>
    /\ dmx.lines = << <<"{", "r">> >>
    /\ dmx.dataBuffer = <<>>

(***************************************************************************)
(* C9.  Timeout liveness, in the form a finite run refutes: a trigger      *)
(* with a positive timeout whose worker was started, has emitted no        *)
(* terminal line and has not ended, with no later trigger, shutdown or     *)
(* reset, either still has its timer pending or has had it fire, with      *)
(* exactly one channel-2 send, no channel-1 send, the slot empty and the   *)
(* worker killed.  (A timer that is cleared never fires.)                  *)
(***************************************************************************)
C9_TimeoutIsDelivered ==
    \A r \in Reqs :
        ( /\ TimeoutConfigured
          /\ Started(r) /\ nextReq = r + 1
          /\ proc[r].st \in {"spawned", "running"}
          /\ hist[r].first \in {"none", "timeout"}
          /\ hist[r].cancel = "no" /\ ~nodeClosed )
        => \/ timer[r] = "armed"
           \/ /\ timer[r] = "fired"
              /\ out[r].ch2 = 1 /\ out[r].ch1 = 0
              /\ waitingNode = Null /\ proc[r].kills = 1

(***************************************************************************)
(* C10.  A 'close' event with a non-zero, non-null exit code that is the   *)
(* first terminal event of the trigger in the slot resolves the trigger    *)
(* as Failure: the exit is reported once, the error status is shown,       *)
(* neither channel ever emits for the trigger, and its timer is disarmed   *)
(* without having fired.                                                   *)
(***************************************************************************)
C10_NonZeroExitIsFailure ==
    \A r \in Reqs :
        (hist[r].first = "exit" /\ hist[r].live)
        => /\ out[r].errBy = 1 /\ out[r].errFor >= 1
           /\ hist[r].errShown = 1
           /\ out[r].ch1 = 0 /\ out[r].ch2 = 0
           /\ timer[r] \in {"none", "cleared"}
           /\ timeoutId # r /\ waitingNode # r /\ pythonProcess # r

\* The worker of the trigger in the slot has exited with code 1 while the
\* trigger's timer was pending.
C10_Witness ==
    \E r \in Reqs :
        /\ hist[r].first = "exit" /\ hist[r].live
        /\ timer[r] = "cleared" /\ out[r].errBy = 1

(***************************************************************************)
(* C11.  A line carrying an 'error' field is always terminal.  In every    *)
(* reachable state, handling such a line of a worker whose pipes are open  *)
(* (the current one or a superseded one) reports it once,                  *)
(* sends on neither channel, kills the worker referenced, disarms the      *)
(* timer referenced and leaves the node idle with an empty slot (no        *)
(* error state is kept); a trigger handled next is in the slot, shows      *)
(* 'detecting' and has a worker of its own, just spawned.  A trigger in    *)
(* the slot whose first terminal event was an error line has its error     *)
(* reported, no send on either channel, its worker killed and its timer    *)
(* not pending.                                                            *)
(***************************************************************************)
ErrorLine == <<"{", "e">>

C11_ErrorLineIsTerminal ==
    /\ \A w \in {v \in Reqs : proc[v].st \in {"spawned", "running"}} :
          LET s == HandleLine(World, w, ErrorLine)
          IN  /\ s.out[w].errBy = out[w].errBy + 1
              /\ \A r \in Reqs : /\ s.out[r].ch1 = out[r].ch1
                                 /\ s.out[r].ch2 = out[r].ch2
              /\ s.pythonProcess = Null /\ s.timeoutId = Null
              /\ s.waitingNode = Null /\ s.status = "idle"
              /\ pythonProcess # Null
                 => s.proc[pythonProcess].kills = proc[pythonProcess].kills + 1
              /\ \A r \in Reqs : s.timer[r] # "armed"
              /\ nextReq <= MaxReq
                 => LET n == onInput(s, nextReq, FALSE)
                    IN  /\ n.waitingNode = nextReq /\ n.status = "detecting"
                        /\ n.pythonProcess = nextReq
                        /\ n.proc[nextReq] = [st |-> "spawned", kills |-> 0,
                                              dataBuffer |-> <<>>]
    /\ \A r \in Reqs :
          (hist[r].first = "errorLine" /\ hist[r].live)
          => /\ out[r].errBy >= 1 /\ out[r].errFor >= 1
             /\ out[r].ch1 = 0 /\ out[r].ch2 = 0
             /\ proc[r].kills >= 1
             /\ timer[r] \in {"none", "cleared"}
             /\ waitingNode # r /\ pythonProcess # r /\ timeoutId # r

\* An error line resolved a trigger with a pending timer, and the next
\* trigger is being detected by a new worker.
C11_Witness ==
    \E r \in Reqs :
        /\ hist[r].first = "errorLine" /\ hist[r].live
        /\ out[r].errBy = 1 /\ timer[r] = "cleared"
        /\ r + 1 \in Reqs /\ waitingNode = r + 1 /\ status = "detecting"
        /\ pythonProcess = r + 1 /\ proc[r + 1].st = "spawned"

(***************************************************************************)
(* C12.  A start failure (spawn() throwing, or the worker's 'error'        *)
(* event) that is the first terminal event of the trigger in the slot is   *)
(* a Failure of that trigger: it is reported exactly once, neither         *)
(* channel ever emits for the trigger, and the timer armed before the      *)
(* spawn is cleared without having fired.                                  *)
(***************************************************************************)
C12_StartFailureIsFailure ==
    \A r \in Reqs :
        (hist[r].first = "startFailure" /\ hist[r].live)
        => /\ out[r].errBy = 1
           /\ out[r].ch1 = 0 /\ out[r].ch2 = 0
           /\ timer[r] \in {"none", "cleared"}
           /\ timeoutId # r /\ waitingNode # r

(***************************************************************************)
(* C13.  Teardown is idempotent.  In every reachable state, cleanup()      *)
(* sends and reports nothing and leaves the slot, the worker handle and    *)
(* the timer handle absent and the status idle; a second cleanup() changes *)
(* nothing more (cleanup; cleanup = cleanup), whether the worker had       *)
(* exited or been killed and the timer had fired or been cleared; and      *)
(* cleanup() of an idle node changes nothing at all.                       *)
(***************************************************************************)
C13_CleanupIdempotent ==
    LET c == cleanup(World)
    IN  /\ cleanup(c) = c
        /\ c.out = out
        /\ c.waitingNode = Null /\ c.pythonProcess = Null /\ c.timeoutId = Null
        /\ c.status = "idle"
        /\ (waitingNode = Null /\ pythonProcess = Null /\ timeoutId = Null
            /\ status = "idle") => c = World

\* cleanup() has run again ('close' handler) after the cleanup() that
\* resolved the trigger had killed its worker and cleared its timer.
C13_Witness ==
    \E r \in Reqs :
        /\ hist[r].first = "detected" /\ hist[r].live
        /\ proc[r].st = "closed" /\ proc[r].kills = 1
        /\ timer[r] = "cleared" /\ out[r].ch1 = 1
        /\ waitingNode = Null /\ pythonProcess = Null /\ timeoutId = Null

(***************************************************************************)
(* C14.  At most one live trigger.  In every reachable state at most one   *)
(* spawned worker has neither ended nor been sent a kill, at most one      *)
(* timer is pending, and such a worker and such a timer are those of the   *)
(* trigger held in the slot, referenced by the worker and timer handles.   *)
(***************************************************************************)
LiveWorkers ==
    {w \in Reqs : proc[w].st \in {"spawned", "running"} /\ proc[w].kills = 0}

PendingTimers == {r \in Reqs : timer[r] = "armed"}

C14_AtMostOneLiveRequest ==
    /\ Cardinality(LiveWorkers) <= 1
    /\ Cardinality(PendingTimers) <= 1
    /\ \A w \in LiveWorkers : waitingNode = w /\ pythonProcess = w
    /\ \A r \in PendingTimers : waitingNode = r /\ timeoutId = r

\* A second trigger is live, with its worker and its pending timer, while
\* the killed worker of the first has not ended yet.
C14_Witness ==
    \E r \in Reqs :
        /\ r + 1 \in Reqs
        /\ hist[r].cancel = "superseded"
        /\ proc[r].st \in {"spawned", "running"} /\ proc[r].kills = 1
        /\ timer[r] = "cleared"
        /\ LiveWorkers = {r + 1} /\ PendingTimers = {r + 1}

(***************************************************************************)
(* C15.  The channel-1 message of a trigger is a copy of the trigger's     *)
(* own message with the payload field set to {count, humans, timestamp}    *)
(* of the detected line: every other field is as in the trigger message,   *)
(* no field is added besides payload, the trigger message object itself    *)
(* is as it was delivered, and channel 2 has received nothing for the      *)
(* trigger.                                                                *)
(***************************************************************************)
DetectedLine == <<"{", "d">>

C15_SuccessPayload ==
    \A r \in Reqs :
        /\ Started(r) => msg[r] = TriggerMsg(r)
        /\ Len(out[r].sent) = out[r].ch1
        /\ \A i \in 1..Len(out[r].sent) :
              LET m == out[r].sent[i]
                  d == JSONparse(DetectedLine)
              IN  /\ DOMAIN m = DOMAIN TriggerMsg(r) \cup {"payload"}
                  /\ \A f \in DOMAIN m \ {"payload"} : m[f] = TriggerMsg(r)[f]
                  /\ m.payload = [count |-> d.count, humans |-> d.humans,
                                  timestamp |-> d.timestamp]
                  /\ out[r].ch2 = 0

\* A trigger whose message carries a payload of its own has been answered
\* on channel 1.
C15_Witness ==
    \E r \in Reqs :
        /\ out[r].ch1 = 1 /\ out[r].ch2 = 0
        /\ "payload" \in DOMAIN TriggerMsg(r)
        /\ out[r].sent[1].topic = "camera"
        /\ out[r].sent[1].payload.count = 1
        /\ msg[r].payload = [text |-> "go"]

(***************************************************************************)
(* C16.  With a timeout that is absent, zero or negative no timer is ever  *)
(* armed: in every state the timer handle is absent, no trigger has a      *)
(* timer, and no trigger gets a channel-2 send, whatever the workers do.   *)
(***************************************************************************)
C16_NoTimerWithoutPositiveTimeout ==
    (~config.timeout.set \/ config.timeout.val <= 0)
    => /\ timeoutId = Null
       /\ \A r \in Reqs : timer[r] = "none" /\ out[r].ch2 = 0

\* With a negative timeout, a trigger is in the slot, its worker has
\* written output and no timer is there.
C16_Witness ==
    \E r \in Reqs :
        /\ config.timeout.set /\ config.timeout.val < 0
        /\ waitingNode = r /\ pythonProcess = r /\ proc[r].st = "running"
        /\ timeoutId = Null /\ timer[r] = "none"

(***************************************************************************)
(* C17.  At the end of every handler the status is idle whenever the slot  *)
(* is empty: no 'detecting', 'ready', 'detected' or 'error' status stays   *)
(* shown while no trigger is live, late lines included.                    *)
(***************************************************************************)
C17_IdleStatusWhenSlotEmpty == waitingNode = Null => status = "idle"

(***************************************************************************)
(* C18.  Noise is no control signal.  In every reachable state, handling   *)
(* a blank line or a line that is not JSON of a worker whose pipes are     *)
(* open, and handling its standard-error data, leaves everything as it     *)
(* is: the slot, the worker handle, the timer handle, the status, the      *)
(* workers, the timers, what was sent and what was reported.               *)
(***************************************************************************)
NoiseLines == { <<SP>>, <<"x">>, <<"{">> }

C18_NoiseChangesNothing ==
    /\ \A line \in NoiseLines : Trim(line) = <<>> \/ ~JSONparse(line).ok
    /\ \A w \in Reqs :
          proc[w].st \in {"spawned", "running"}
          => /\ \A line \in NoiseLines : HandleLine(World, w, line) = World
             /\ nodeWarn(World) = World

\* A worker has written a whole line, and its trigger is in the slot as
\* the 'input' handler left it: that line was noise or a zero count.
C18_Witness ==
    \E r \in Reqs :
        /\ waitingNode = r /\ pythonProcess = r /\ status = "detecting"
        /\ proc[r].st = "running" /\ proc[r].dataBuffer = <<>>
        /\ timer[r] = "armed" /\ timeoutId = r
        /\ Outcomes(r) = 0 /\ out[r].errFor = 0

(***************************************************************************)
(* C19.  Every spawned worker is killed exactly once: kill() is never      *)
(* called twice on a worker, and once a worker's trigger is no longer in   *)
(* the slot (resolved, superseded, stopped) kill() has been called on it,  *)
(* also where the worker had ended before.                                 *)
(***************************************************************************)
C19_KilledExactlyOnce ==
    \A w \in Reqs :
        /\ proc[w].kills <= 1
        /\ (proc[w].st # "none" /\ waitingNode # w) => proc[w].kills = 1
        /\ proc[w].st = "none" => proc[w].kills = 0

\* A worker ended by itself before any terminal event; kill() was called
\* on it by the cleanup() of its 'close' handler, once.
C19_Witness ==
    \E w \in Reqs :
        /\ proc[w].st = "closed" /\ proc[w].kills = 1
        /\ hist[w].first = "none" /\ hist[w].cancel = "no"
        /\ waitingNode = Null

(***************************************************************************)
(* C20.  Shutdown and reset cancel the trigger in flight without an        *)
(* Outcome.  In every reachable state the node's 'close' handler and the   *)
(* reset callback leave the slot, the worker handle and the timer handle   *)
(* absent and the status idle, with the worker that was referenced killed  *)
(* and no timer pending, and they send and report nothing.  A trigger      *)
(* stopped this way has its worker killed, its timer not pending and no    *)
(* send on either channel.  The done callback of 'close' has been called   *)
(* exactly once when the node is closed, whether a trigger was in flight   *)
(* or not, and never before.                                               *)
(***************************************************************************)
StoppedAsRequired(s) ==
    /\ s.waitingNode = Null /\ s.pythonProcess = Null /\ s.timeoutId = Null
    /\ s.status = "idle"
    /\ s.out = out
    /\ pythonProcess # Null => s.proc[pythonProcess].kills = 1
    /\ \A r \in Reqs : s.timer[r] # "armed"

C20_ShutdownAndResetCancel ==
    /\ StoppedAsRequired(onNodeClose(World))
    /\ StoppedAsRequired(onResetState(World))
    /\ doneCalls = IF nodeClosed THEN 1 ELSE 0
    /\ \A r \in Reqs :
          hist[r].cancel = "stopped"
          => /\ proc[r].kills = 1 /\ timer[r] \in {"none", "cleared"}
             /\ out[r].ch1 = 0 /\ out[r].ch2 = 0
             /\ waitingNode # r

\* The node was closed with a trigger in flight whose timer was pending.
C20_Witness ==
    \E r \in Reqs :
        /\ nodeClosed /\ doneCalls = 1
        /\ hist[r].cancel = "stopped" /\ hist[r].first = "none"
        /\ proc[r].kills = 1 /\ timer[r] = "cleared"
        /\ waitingNode = Null /\ status = "idle" /\ Outcomes(r) = 0

(***************************************************************************)
(* C21.  Every worker is spawned with the argument list [script,           *)
(* '--method', method, '--confidence', confidence/100, '--camera',         *)
(* camera] of the node's configuration, where an absent method stands for  *)
(* 'mobilenet', an absent confidence for 50 and an absent camera for '0',  *)
(* followed by '--no-display' exactly when visual feedback is off, then    *)
(* by '--emotion' exactly when emotion analysis is requested.              *)
(***************************************************************************)
Configured(x, d) == IF x.set THEN x.val ELSE d

C21_SpawnArguments ==
    \A w \in Reqs :
        argv[w] # <<>>
        => argv[w] =
              << "detect_human.py",
                 "--method", Configured(config.method, "mobilenet"),
                 "--confidence",
                 [num |-> Configured(config.confidence, 50), den |-> 100],
                 "--camera", Configured(config.camera, "0") >>
              \o (IF config.visualFeedback THEN <<>> ELSE <<"--no-display">>)
              \o (IF config.detectEmotion THEN <<"--emotion">> ELSE <<>>)

(***************************************************************************)
(* C22.  At the end of every handler the closure variables are coupled:    *)
(* the slot holds a trigger exactly when the worker handle references a    *)
(* worker, the timer handle references a timer only while the slot holds   *)
(* a trigger, and the worker and the timer referenced are those of the     *)
(* trigger in the slot.                                                    *)
(***************************************************************************)
C22_ClosureVariablesCoupled ==
    /\ waitingNode # Null <=> pythonProcess # Null
    /\ timeoutId # Null => waitingNode # Null
    /\ pythonProcess # Null => pythonProcess = waitingNode
    /\ timeoutId # Null => timeoutId = waitingNode

\* spawn() threw for a trigger whose timer was already armed: the catch
\* has left the slot and both handles empty.
C22_Witness ==
    \E r \in Reqs :
        /\ hist[r].first = "startFailure" /\ proc[r].st = "none"
        /\ timer[r] = "cleared" /\ out[r].errBy = 1
        /\ waitingNode = Null /\ pythonProcess = Null /\ timeoutId = Null

====
